---- MODULE Spec2Model ----
(***************************************************************************)
(* fidget-spinner: the RPM pipeline (extension.RpmCalculator.process) and  *)
(* its host, python/fidget_spinner/__main__.py (the camera thread's loop   *)
(* and the UI thread's to_python callback).                                *)
(*                                                                         *)
(* Floats are exact rationals [n, d] with d > 0, in lowest terms.          *)
(* The sizes of the transform are scaled down so that the window can be    *)
(* enumerated and the discrete Fourier transform stays exact: with         *)
(* FFT_SAMPLES = 6 every 2*cos(2*pi*m/6) is an integer.                    *)
(***************************************************************************)
EXTENDS Integers, Sequences, FiniteSets, TLC

\* ------------------------------------------------------------------ sizes

\* __main__.py:14-16, scaled (512.0, 1024 and 10.0 in the source): a bin lasts
\* 1/FFT_FREQUENCY s, an analysis interval 1/SAMPLING_FREQUENCY s, so an
\* interval is FFT_FREQUENCY/SAMPLING_FREQUENCY bins (51.2 in the source, 2.5
\* here: not a whole number of bins in either).
FFT_FREQUENCY == 5
FFT_SAMPLES == 6
SAMPLING_FREQUENCY == 2

\* timestamp units per bin (1e6/512 microseconds in the source's units)
TimestampsPerBin == 2
\* event timestamps are below MaxTime
MaxTime == 12
\* events per batch
MaxBatch == 2

\* ---------------------------------------------------------------- floats

Abs(x) == IF x < 0 THEN -x ELSE x

RECURSIVE GCD(_, _)
GCD(a, b) == IF b = 0 THEN a ELSE GCD(b, a % b)

\* the rational n/d (d # 0) in lowest terms with a positive denominator
Rat(n, d) ==
    LET s == IF d < 0 THEN -1 ELSE 1
        g == GCD(Abs(n), Abs(d))
    IN  [n |-> (s * n) \div g, d |-> (s * d) \div g]

Int2Rat(i) == [n |-> i, d |-> 1]
RatLt(a, b) == a.n * b.d < b.n * a.d
RatLe(a, b) == a.n * b.d <= b.n * a.d
RatMul(a, b) == Rat(a.n * b.n, a.d * b.d)
Zero == Int2Rat(0)
One == Int2Rat(1)

\* Python's None is the empty set, a value v that is present is {v}
None == {}
Some(v) == {v}
TheValue(o) == CHOOSE v \in o : TRUE

\* ------------------------------------------------- the pipeline (the core)
\* extension.RpmCalculator is not among the sources; it is modelled from the
\* specification's sections 3, 4, 6 and 7.

HalfSamples == FFT_SAMPLES \div 2
Bins == 0 .. (HalfSamples - 1)
\* lag 0 and the constant component are excluded from the peak searches
PeakBins == 1 .. (HalfSamples - 1)

RECURSIVE SumFn(_, _, _)
SumFn(f, lo, hi) == IF lo > hi THEN 0 ELSE f[lo] + SumFn(f, lo + 1, hi)

\* 2*cos(2*pi*m/FFT_SAMPLES), an integer for FFT_SAMPLES = 6
TwoCos(m) == <<2, 1, -1, -2, -1, 1>>[(m % FFT_SAMPLES) + 1]

\* 4.2 Sliding Window Store: the window, oldest bin first; slots not yet
\* written are zero
EmptyWindow == [i \in 1 .. FFT_SAMPLES |-> 0]
\* (a push that writes over the newest slot)
PushOverNewest(window, bin_value) == [window EXCEPT ![Len(window)] = bin_value]
Push(window, bin_value) == Append(Tail(window), bin_value)

\* sqrt(3)/2 * TwoSin(m) = sin(2*pi*m/FFT_SAMPLES)
TwoSin(m) == <<0, 1, 1, 0, -1, -1>>[(m % FFT_SAMPLES) + 1]

\* 4.3 the analysis window function, a periodic Hann window times 4:
\* 4 * 0.5 * (1 - cos(2*pi*n/N)) = 2 - 2*cos(2*pi*n/N)
WindowFunction(n) == 2 - TwoCos(n)

\* 4.3 Spectral Analyzer. With Y[k] the transform of the windowed samples
\* y[n] = w[n] * x[n], 2*Re Y[k] = sum y[n] * TwoCos(k*n) and
\* 2*Im Y[k] = -sqrt(3) * sum y[n] * TwoSin(k*n), so that
\* 4*|Y[k]|^2 = A^2 + 3*B^2. With the window's factor 4, bin k holds
\* 64 * magnitude^2; the squared magnitude stands for the magnitude (both
\* are ordered alike).
Power(window, k) ==
    LET A == SumFn([n \in 0 .. (FFT_SAMPLES - 1) |->
                      WindowFunction(n) * window[n + 1] * TwoCos(k * n)],
                   0, FFT_SAMPLES - 1)
        B == SumFn([n \in 0 .. (FFT_SAMPLES - 1) |->
                      WindowFunction(n) * window[n + 1] * TwoSin(k * n)],
                   0, FFT_SAMPLES - 1)
    IN  A * A + 3 * B * B

SpectrumOf(window) == [k \in Bins |-> Int2Rat(Power(window, k))]

\* magnitude > threshold, for a stored 64 * magnitude^2 and a threshold >= 0
MagnitudeExceeds(power, threshold) ==
    power.n * threshold.d * threshold.d > 64 * power.d * threshold.n * threshold.n

\* sum over n of x[n] * x[(n + lag) mod N]
CircularAutocorrelation(window, lag) ==
    SumFn([n \in 0 .. (FFT_SAMPLES - 1) |->
             window[n + 1] * window[((n + lag) % FFT_SAMPLES) + 1]],
          0, FFT_SAMPLES - 1)

\* 4.4 Periodicity Detector: the autocorrelation normalized by its lag 0
\* (zero for a zero window)
AutocorrelationOf(window) ==
    [l \in Bins |->
        IF CircularAutocorrelation(window, 0) = 0 THEN Zero
        ELSE Rat(CircularAutocorrelation(window, l),
                 CircularAutocorrelation(window, 0))]

\* the lowest index in PeakBins at which f is greatest
PeakOf(f) ==
    CHOOSE k \in PeakBins :
        /\ \A j \in PeakBins : RatLe(f[j], f[k])
        /\ \A j \in PeakBins : f[j] = f[k] => k <= j

\* 7 (a) InvalidConfiguration: clamp to the nearest valid value
ClampAmplitude(t) == IF RatLt(t, Zero) THEN Zero ELSE t
ClampAutocorrelation(t) ==
    IF RatLt(t, Zero) THEN Zero ELSE IF RatLt(One, t) THEN One ELSE t
\* the seventh argument is the reciprocal of a divider >= 1 (__main__.py:80)
ClampScale(s) == IF RatLe(s, Zero) \/ RatLt(One, s) THEN One ELSE s

\* 4.5 Harmonic Resolver, selection policy: both thresholds exceeded and the
\* two peaks within one step of the shared axis; k is the spectral peak's
\* bin and j the autocorrelation peak's lag
\* (either threshold alone accepting)
AcceptedByEither(spectrum_, autocorrelation_, k, j, amplitude_threshold, autocorrelation_threshold) ==
    \/ MagnitudeExceeds(spectrum_[k], ClampAmplitude(amplitude_threshold))
    \/ RatLt(ClampAutocorrelation(autocorrelation_threshold), autocorrelation_[j])

Accepted(spectrum_, autocorrelation_, k, j, amplitude_threshold, autocorrelation_threshold) ==
    /\ MagnitudeExceeds(spectrum_[k], ClampAmplitude(amplitude_threshold))
    /\ RatLt(ClampAutocorrelation(autocorrelation_threshold), autocorrelation_[j])
    /\ Abs(k - j) <= 1

\* 4.5, 4.6: rpm = candidate_frequency / frequency_divider * 60, the candidate
\* at bin k being k * FFT_FREQUENCY / FFT_SAMPLES
RpmOf(k, scale) ==
    RatMul(Rat(60 * k * FFT_FREQUENCY, FFT_SAMPLES), ClampScale(scale))

\* the detection marker {position, value}; position -1 is the sentinel
Sentinel == Int2Rat(-1)
MarkerOf(autocorrelation_, j) ==
    <<Rat(j * FFT_FREQUENCY, FFT_SAMPLES), autocorrelation_[j]>>
\* (a marker cleared to zeros instead of the sentinel)
ZeroMarker == <<Zero, Zero>>
NoMarker == <<Sentinel, Zero>>

\* 3 PipelineState at construction
NewCalculator ==
    [window |-> EmptyWindow, bin_index |-> 0, bin_count |-> 0,
     analysis_clock |-> 0, boundaries |-> 0, last_t |-> 0]

\* 4.1, 4.6: a completed bin enters the window; the analysis clock gains
\* SAMPLING_FREQUENCY per bin and crosses a boundary at FFT_FREQUENCY
AdvanceClock(clock) == clock + SAMPLING_FREQUENCY
\* (a clock restarted at a boundary, dropping the remainder)
ClockRestart(clock) == 0
ClockCarry(clock) == clock - FFT_FREQUENCY
PushBin(c) ==
    LET clock == AdvanceClock(c.analysis_clock)
        due == clock >= FFT_FREQUENCY
    IN  [c EXCEPT !.window = Push(c.window, c.bin_count),
                  !.bin_count = 0,
                  !.bin_index = c.bin_index + 1,
                  !.analysis_clock = IF due THEN ClockCarry(clock) ELSE clock,
                  !.boundaries = IF due THEN c.boundaries + 1 ELSE c.boundaries]

BinOf(t) == t \div TimestampsPerBin

RECURSIVE AdvanceTo(_, _)
AdvanceTo(c, bin) == IF c.bin_index < bin THEN AdvanceTo(PushBin(c), bin) ELSE c

\* 4.1 Temporal Binner: fold the events into the bin in progress
RECURSIVE Ingest(_, _)
Ingest(c, events) ==
    IF events = <<>> THEN c
    ELSE LET a == AdvanceTo(c, BinOf(Head(events)))
         IN  Ingest([a EXCEPT !.bin_count = a.bin_count + 1,
                              !.last_t = Head(events)],
                    Tail(events))

\* 7 (b) MalformedInput: decreasing timestamps
Ordered(events) == \A i \in 1 .. (Len(events) - 1) : events[i] <= events[i + 1]
Malformed(c, events) ==
    \/ ~Ordered(events)
    \/ events # <<>> /\ Head(events) < c.last_t

\* the caller's detection buffer has four slots; the marker is the pair the
\* caller reads, slots 2 and 3 (__main__.py:132-141). Every call writes it:
\* the sentinel means "no confirmed periodicity this cycle" (3).
WriteMarker(detections, marker) ==
    [detections EXCEPT ![2] = marker[1], ![3] = marker[2]]

\* (an empty sequence returned when the detection is not accepted)
EmitEmptySequence(fed, spectrum_, autocorrelation_, detections, k, j, ok, scale) == [calculator |-> fed, spectrum |-> spectrum_, autocorrelation |-> autocorrelation_, detections |-> WriteMarker(detections, IF ok THEN MarkerOf(autocorrelation_, j) ELSE NoMarker), rpms |-> IF ok THEN Some([i \in 1 .. fed.boundaries |-> RpmOf(k, scale)]) ELSE Some(<<>>), ticks |-> fed.boundaries, accepted |-> ok]

\* 4.6 step 3: one sample per boundary crossed, in order
Emit(fed, spectrum_, autocorrelation_, detections, k, j, ok, scale) ==
    [calculator |-> fed, spectrum |-> spectrum_,
     autocorrelation |-> autocorrelation_,
     detections |-> WriteMarker(detections,
                        IF ok THEN MarkerOf(autocorrelation_, j) ELSE NoMarker),
     rpms |-> IF ok THEN Some([i \in 1 .. fed.boundaries |-> RpmOf(k, scale)])
              ELSE None,
     ticks |-> fed.boundaries, accepted |-> ok]

Resolve(fed, spectrum_, autocorrelation_, detections, k, j, amplitude_threshold, autocorrelation_threshold, scale) ==
    Emit(fed, spectrum_, autocorrelation_, detections, k, j,
         Accepted(spectrum_, autocorrelation_, k, j,
                  amplitude_threshold, autocorrelation_threshold),
         scale)

Detect(fed, spectrum_, autocorrelation_, detections, amplitude_threshold, autocorrelation_threshold, scale) ==
    Resolve(fed, spectrum_, autocorrelation_, detections,
            PeakOf(spectrum_), PeakOf(autocorrelation_),
            amplitude_threshold, autocorrelation_threshold, scale)

\* 4.6 step 2: the analyses run on the window as the call's events left it
Analyse(fed, spectrum_, autocorrelation_, detections, amplitude_threshold, autocorrelation_threshold, scale) ==
    IF fed.boundaries = 0
    THEN [calculator |-> fed, spectrum |-> spectrum_,
          autocorrelation |-> autocorrelation_,
          detections |-> WriteMarker(detections, NoMarker),
          rpms |-> None, ticks |-> 0, accepted |-> FALSE]
    ELSE Detect(fed, SpectrumOf(fed.window), AutocorrelationOf(fed.window),
                detections, amplitude_threshold, autocorrelation_threshold, scale)

\* 4.6, 6: process. The result holds the new pipeline state, the three
\* buffers, the returned samples (None: no new samples), the number of
\* boundaries crossed in the call and whether the detection was accepted.
Process(c, spectrum_, autocorrelation_, detections, events, amplitude_threshold, autocorrelation_threshold, scale) ==
    IF Malformed(c, events)
    THEN [calculator |-> c, spectrum |-> spectrum_,
          autocorrelation |-> autocorrelation_,
          detections |-> WriteMarker(detections, NoMarker),
          rpms |-> None, ticks |-> 0, accepted |-> FALSE]
    ELSE Analyse(Ingest([c EXCEPT !.boundaries = 0], events),
                 spectrum_, autocorrelation_, detections,
                 amplitude_threshold, autocorrelation_threshold, scale)

\* ------------------------------------------------------------- the state

VARIABLES
    algorithm_configuration,    \* lines 199-205, shared by both threads
    cursors,                    \* lines 206-211, shared by both threads
    biases,                     \* configuration.biases, lines 198, 218
    ui,                         \* the UI thread: where to_python stands, and whether its latest call handed a cursor out of range
    pc,                         \* the camera thread: where it stands
    rpm_calculator,             \* line 55 (None before)
    spectrum,                   \* line 56
    autocorrelation,            \* line 57
    autocorrelation_detections, \* line 58
    rpms,                       \* line 59
    filtered_rpms,              \* line 60
    first,                      \* line 61
    status,                     \* line 62: what the device reported
    packet,                     \* line 62: what the device delivered
    passed,                     \* lines 73-81: the arguments of the process call
    new_rpms,                   \* line 73: what process returned
    cycle,                      \* the current iteration of the loop: whether it is paused and what it has done
    display,                    \* the line series and the event display
    device,                     \* the device: its clock and what it has yielded
    threads,                    \* which thread made, holds and touched what
    session                     \* a session of process calls on the pipeline alone

host_vars == <<algorithm_configuration, cursors, biases, ui, pc, rpms, filtered_rpms, first, status, packet, passed, new_rpms, cycle, display, device, threads>>

vars == <<algorithm_configuration, cursors, biases, ui, pc, rpm_calculator, spectrum, autocorrelation, autocorrelation_detections, rpms, filtered_rpms, first, status, packet, passed, new_rpms, cycle, display, device, threads, session>>

\* np.zeros(n)
Zeros(n) == [i \in 0 .. (n - 1) |-> Zero]

\* lines 56-58: the buffers the caller allocates
NewSpectrum == Zeros(FFT_SAMPLES \div 2)
NewAutocorrelation == Zeros(FFT_SAMPLES \div 2)
NewDetections == Zeros(4)

\* ------------------------------------------------------------- the host

\* lines 19-23
MINIMUM_FILTER_SIZE == 5
DEFAULT_MAXIMUM_LATENCY == 3000
DEFAULT_AMPLITUDE_THRESHOLD == 100
DEFAULT_AUTOCORRELATION_THRESHOLD == 40
DEFAULT_FREQUENCY_DIVIDER == 3

\* line 59: the length of the RPM history (300 in the program)
HistoryLength == 6

\* how many packets the device yields, how many events a packet holds at
\* most, and how many times the UI calls to_python in a run
MaxPackets == 2
MaxPacketEvents == 3
MaxUiCalls == 1

\* the largest and the smallest of an array of floats
MaxOf(array) == CHOOSE x \in {array[i] : i \in DOMAIN array} : \A i \in DOMAIN array : RatLe(array[i], x)
MinOf(array) == CHOOSE x \in {array[i] : i \in DOMAIN array} : \A i \in DOMAIN array : RatLe(x, array[i])

\* Python's round() on a non-negative float: to the nearest integer, a
\* tie going to the even one
Round(x) == LET q == x.n \div x.d  rest == x.n - q * x.d IN IF 2 * rest < x.d THEN q ELSE IF 2 * rest > x.d THEN q + 1 ELSE IF q % 2 = 0 THEN q ELSE q + 1

\* int(round((len(array) - 1) * cursor))
CursorIndex(array, cursor) == Round(RatMul(Int2Rat(Cardinality(DOMAIN array) - 1), cursor))

\* lines 78-80: the arguments of process read from the configuration; the
\* division by zero is the caller's to guard
ProcessArgumentsDirect(configuration) == [amplitude_threshold |-> Rat(configuration.amplitude_threshold, 10), autocorrelation_threshold |-> Rat(configuration.autocorrelation_threshold, 100), frequency_divider |-> Int2Rat(configuration.frequency_divider), configuration |-> configuration]
ProcessArguments(configuration) == [amplitude_threshold |-> Rat(configuration.amplitude_threshold, 10), autocorrelation_threshold |-> Rat(configuration.autocorrelation_threshold, 100), frequency_divider |-> Rat(1, configuration.frequency_divider), configuration |-> configuration]

\* lines 132, 136, 140, 141: the slots of the detection buffer the host reads
PositionSlot == 2
ValueSlot == 3

\* lines 85-93, 109-117: the points of a buffer, one per bin
PointsOf(array) == [i \in 1 .. Cardinality(DOMAIN array) |-> <<Rat((i - 1) * FFT_FREQUENCY, FFT_SAMPLES), array[i - 1]>>]

\* lines 97-108, 118-131: a threshold is drawn from 0 to FFT_FREQUENCY / 2
ThresholdLine(y) == <<(<<Zero, y>>), (<<Rat(FFT_FREQUENCY, 2), y>>)>>

\* lines 132-146: the marker drawn from what process left in the buffer
DetectionLineFirstSlots(detections) == IF RatLe(Zero, detections[0]) THEN <<(<<detections[0], Rat(-1, 2)>>), (<<detections[0], detections[1]>>)>> ELSE <<>>
DetectionLine(detections) == IF RatLe(Zero, detections[PositionSlot]) THEN <<(<<detections[PositionSlot], Rat(-1, 2)>>), (<<detections[PositionSlot], detections[ValueSlot]>>)>> ELSE <<>>

\* lines 147-149 without the shift of line 148
HistoryOverwrite(history, samples) == LET length == Cardinality(DOMAIN history)  n == Len(samples) IN [i \in DOMAIN history |-> IF i < length - n THEN history[i] ELSE samples[i - (length - n) + 1]]

\* lines 147-149: what the two slice assignments do to the history; numpy
\* raises when the two sides of an assignment differ in length
HistoryFails(history, samples) == Len(samples) = 0 \/ Len(samples) > Cardinality(DOMAIN history)
HistoryAppend(history, samples) == LET length == Cardinality(DOMAIN history)  n == Len(samples) IN [i \in DOMAIN history |-> IF i < length - n THEN history[i + n] ELSE samples[i - (length - n) + 1]]

\* lines 150-155: scipy.ndimage.minimum_filter, mode "nearest"
\* (no smoothing)
NoFilter(history) == history
Nearest(history, i) == IF i < 0 THEN 0 ELSE IF i > Cardinality(DOMAIN history) - 1 THEN Cardinality(DOMAIN history) - 1 ELSE i
MinimumFilter(history) == [i \in DOMAIN history |-> MinOf([j \in 0 .. (MINIMUM_FILTER_SIZE - 1) |-> history[Nearest(history, i + j - MINIMUM_FILTER_SIZE \div 2)]])]

\* lines 162-169: the points of the filtered history
HistoryPoints(filtered) == [i \in 1 .. Cardinality(DOMAIN filtered) |-> <<Rat(i - 1, SAMPLING_FREQUENCY), filtered[i - 1]>>]

\* the series and the event display as the QML declares them, and the
\* cursor values the cursor properties were last computed from
NewDisplay == [published |-> [spectrum |-> Zero, autocorrelation |-> Zero, rpms |-> Zero], spectrum |-> [points |-> <<>>, maximum |-> One, cursor |-> Zero], spectrum_amplitude_threshold |-> <<>>, autocorrelation |-> [points |-> <<>>, maximum |-> One, cursor |-> Zero], autocorrelation_threshold |-> <<>>, autocorrelation_detection |-> <<>>, rpms |-> [points |-> <<>>, maximum |-> One, current |-> Zero, cursor |-> Zero], event_display |-> None]

\* lines 199-211
NewAlgorithmConfiguration == [maximum_latency_ms |-> DEFAULT_MAXIMUM_LATENCY, amplitude_threshold |-> DEFAULT_AMPLITUDE_THRESHOLD, autocorrelation_threshold |-> DEFAULT_AUTOCORRELATION_THRESHOLD, frequency_divider |-> DEFAULT_FREQUENCY_DIVIDER, pause |-> FALSE]
NewCursors == [spectrum |-> Zero, autocorrelation |-> Zero, rpms |-> Zero, changed |-> FALSE]

\* the objects of the pipeline and the objects the two threads share
PipelineObjects == {"rpm_calculator", "spectrum", "autocorrelation", "autocorrelation_detections"}
SharedObjects == {"algorithm_configuration", "cursors", "biases"}
NewThreads == [creator |-> None, in_process |-> {}, accessed |-> [o \in PipelineObjects \cup SharedObjects |-> {}]]
Touch(t, objects, thread) == [t EXCEPT !.accessed = [o \in DOMAIN @ |-> IF o \in objects THEN @[o] \cup {thread} ELSE @[o]]]

\* lines 216-243: the objects a to_python call reaches, by key
BiasesNames == {"diff_on"}
ToPythonObjectsAll(key) == PipelineObjects \cup SharedObjects
ToPythonObjects(key) == IF key \in BiasesNames THEN {"biases"} ELSE IF key \in {"maximum_latency_ms", "amplitude_threshold", "autocorrelation_threshold", "frequency_divider", "pause"} THEN {"algorithm_configuration"} ELSE IF key \in {"spectrum_cursor", "autocorrelation_cursor", "rpms_cursor"} THEN {"cursors"} ELSE {}

NewDevice == [time |-> 0, yielded |-> 0]
NoStatus == [delay |-> None, ring |-> None, cleared |-> FALSE]
NoCycle == [paused |-> FALSE, called |-> FALSE, batch |-> None, refreshed |-> FALSE, pushed |-> FALSE]

InitHost ==
    /\ algorithm_configuration = NewAlgorithmConfiguration
    /\ cursors = NewCursors
    /\ biases = [name \in BiasesNames |-> 0]
    /\ ui = [pc |-> "idle", calls |-> 0, rejected |-> FALSE]
    /\ pc = "unstarted"
    /\ rpms = Zeros(HistoryLength)
    /\ filtered_rpms = Zeros(HistoryLength)
    /\ first = TRUE
    /\ status = NoStatus
    /\ packet = None
    /\ passed = None
    /\ new_rpms = None
    /\ cycle = NoCycle
    /\ display = NewDisplay
    /\ device = NewDevice
    /\ threads = NewThreads

\* ------------------------------------- the pipeline driven on its own
\* A session feeds batches to one pipeline with fixed thresholds.

\* events delivered in a session
MaxEvents == 4

Timestamps == 0 .. (MaxTime - 1)
\* a batch with decreasing timestamps
DecreasingBatch == <<1, 0>>
\* the batches in timestamp order (a batch that starts before the previous
\* one ended is among them), and a batch out of order
Batches ==
    {b \in UNION {[1 .. n -> Timestamps] : n \in 0 .. MaxBatch} : Ordered(b)}
        \cup {DecreasingBatch}

AmplitudeArguments == {Zero, Rat(1, 2), Int2Rat(10)}
AutocorrelationArguments == {Rat(2, 5)}
ScaleArguments == {Rat(1, 3)}

NewSession(amplitude, autocorrelation_, scale) ==
    [delivered |-> <<>>, outputs |-> <<>>, last |-> 0, bins |-> <<>>, calls |-> 0, all_empty |-> TRUE,
     well_formed |-> TRUE,
     ticks |-> 0, rejected |-> 0, max_power |-> 0,
     returned |-> None, last_ticks |-> 0,
     amplitude_threshold |-> amplitude,
     autocorrelation_threshold |-> autocorrelation_,
     scale |-> scale]

Max(a, b) == IF a >= b THEN a ELSE b
Min(a, b) == IF a <= b THEN a ELSE b
Flat(o) == IF o = None THEN <<>> ELSE TheValue(o)

Init ==
    /\ InitHost
    /\ rpm_calculator = None
    /\ spectrum = NewSpectrum
    /\ autocorrelation = NewAutocorrelation
    /\ autocorrelation_detections = NewDetections
    /\ session = NewSession(Zero, Zero, One)

\* ------------------------------------------------------ the camera thread

\* lines 910-926: main starts the camera thread, then runs the application
StartCameraThread ==
    /\ pc = "unstarted"
    /\ pc' = "setup"
    /\ UNCHANGED <<algorithm_configuration, cursors, biases, ui, rpm_calculator, spectrum, autocorrelation, autocorrelation_detections, rpms, filtered_rpms, first, status, packet, passed, new_rpms, cycle, display, device, threads, session>>

\* lines 55-61
CreatePipeline ==
    /\ pc = "setup"
    /\ rpm_calculator' = Some(NewCalculator)
    /\ spectrum' = NewSpectrum
    /\ autocorrelation' = NewAutocorrelation
    /\ autocorrelation_detections' = NewDetections
    /\ rpms' = Zeros(HistoryLength)
    /\ filtered_rpms' = Zeros(HistoryLength)
    /\ first' = TRUE
    /\ threads' = [Touch(threads, PipelineObjects, "camera") EXCEPT !.creator = Some("camera")]
    /\ pc' = "next"
    /\ UNCHANGED <<algorithm_configuration, cursors, biases, ui, status, packet, passed, new_rpms, cycle, display, device, session>>

\* what the device can yield next: the delay it reports, and a timeout (no
\* packet), a packet without polarity events, with or without a ring, or a
\* packet of events; the events come every other bin, one at a time, from
\* where the device stands, and a packet takes any number of them
Delays == {None, Some(Int2Rat(4))}
Train(from, n) == [i \in 1 .. n |-> from + (i - 1) * 2 * TimestampsPerBin]
DeviceBatches(from) == {<<>>} \cup {Train(from, n) : n \in {m \in 1 .. MaxPacketEvents : from + (m - 1) * 2 * TimestampsPerBin < MaxTime}}
LastOf(from, e) == IF e = <<>> THEN from ELSE e[Len(e)]
Packets(from) == {[packet |-> None, ring |-> None, time |-> from]} \cup {[packet |-> Some([polarity_events |-> None]), ring |-> ring, time |-> from] : ring \in {None, Some(from)}} \cup {[packet |-> Some([polarity_events |-> Some(e)]), ring |-> Some(LastOf(from, e)), time |-> LastOf(from, e)] : e \in DeviceBatches(from)}

\* lines 64-67: delay is in seconds
TooLateOrEqual(delay, configuration) == delay # None /\ RatLe(Int2Rat(configuration.maximum_latency_ms), RatMul(TheValue(delay), Int2Rat(1000)))
TooLate(delay, configuration) == delay # None /\ RatLt(Int2Rat(configuration.maximum_latency_ms), RatMul(TheValue(delay), Int2Rat(1000)))

\* lines 170-176
EventDisplayPush(d, events, ring) == [d EXCEPT !.event_display = Some([events |-> events, current_t |-> TheValue(ring)])]

\* the end of an iteration of the loop of line 62; what the iteration read
\* and computed is dead from here on
EndIteration ==
    /\ pc' = "next"
    /\ status' = NoStatus
    /\ packet' = None
    /\ passed' = None
    /\ new_rpms' = None
    /\ cycle' = NoCycle

\* line 69: the gate of the pause button
GateIgnoresFirst(first_, configuration) == ~configuration.pause
Gate(first_, configuration) == first_ \/ ~configuration.pause

\* lines 62-72 and 173-176: the device yields, the backlog is cleared when
\* the delay is too long, and the packet is routed; a packet with polarity
\* events comes with a ring (the assertion of line 72)
Fetch(delay, yield) ==
    /\ pc = "next"
    /\ device.yielded < MaxPackets
    /\ device' = [time |-> yield.time, yielded |-> device.yielded + 1]
    /\ status' = [delay |-> delay, ring |-> yield.ring, cleared |-> TooLate(delay, algorithm_configuration)]
    /\ packet' = yield.packet
    /\ threads' = Touch(threads, {"algorithm_configuration"}, "camera")
    /\ IF Gate(first, algorithm_configuration) /\ yield.packet # None
       THEN IF TheValue(yield.packet).polarity_events # None
            THEN /\ pc' = "call"
                 /\ cycle' = [NoCycle EXCEPT !.paused = ~first /\ algorithm_configuration.pause]
                 /\ UNCHANGED display
            ELSE IF yield.ring # None
                 THEN /\ display' = EventDisplayPush(display, <<>>, yield.ring)
                      /\ cycle' = [NoCycle EXCEPT !.paused = ~first /\ algorithm_configuration.pause, !.pushed = TRUE]
                      /\ pc' = "cursors"
                 ELSE /\ pc' = "cursors"
                      /\ cycle' = [NoCycle EXCEPT !.paused = ~first /\ algorithm_configuration.pause]
                      /\ UNCHANGED display
       ELSE /\ pc' = "cursors"
            /\ cycle' = [NoCycle EXCEPT !.paused = ~first /\ algorithm_configuration.pause]
            /\ UNCHANGED display
    /\ UNCHANGED <<algorithm_configuration, cursors, biases, ui, rpm_calculator, spectrum, autocorrelation, autocorrelation_detections, rpms, filtered_rpms, first, passed, new_rpms, session>>

\* lines 73-80: the arguments are evaluated and process is entered; the
\* division of line 80 raises ZeroDivisionError on a zero divider, which
\* nothing catches, and the thread ends
Call ==
    /\ pc = "call"
    /\ IF algorithm_configuration.frequency_divider = 0
       THEN pc' = "crashed" /\ UNCHANGED <<passed>> /\ threads' = Touch(threads, {"algorithm_configuration"}, "camera")
       ELSE /\ passed' = Some(ProcessArguments(algorithm_configuration))
            /\ threads' = [Touch(threads, {"algorithm_configuration"}, "camera") EXCEPT !.in_process = @ \cup {"camera"}]
            /\ pc' = "process"
    /\ UNCHANGED <<algorithm_configuration, cursors, biases, ui, rpm_calculator, spectrum, autocorrelation, autocorrelation_detections, rpms, filtered_rpms, first, status, packet, new_rpms, cycle, display, device, session>>

\* line 74: the batch handed to process is the packet's polarity events
EventsDropped(packet_) == <<>>
EventsOf(packet_) == TheValue(TheValue(packet_).polarity_events)

\* line 73: process runs on the camera thread and returns; the session
\* counts the calls and keeps which packet the last batch came from
Return ==
    /\ pc = "process"
    /\ \E c \in rpm_calculator : \E p \in passed : \E events \in {EventsOf(packet)} : \E r \in {Process(c, spectrum, autocorrelation, autocorrelation_detections, events, p.amplitude_threshold, p.autocorrelation_threshold, p.frequency_divider)} :
        /\ rpm_calculator' = Some(r.calculator)
        /\ spectrum' = r.spectrum
        /\ autocorrelation' = r.autocorrelation
        /\ autocorrelation_detections' = r.detections
        /\ new_rpms' = r.rpms
        /\ session' = [session EXCEPT !.calls = @ + 1, !.last = device.yielded]
        /\ cycle' = [cycle EXCEPT !.called = TRUE, !.batch = Some(events)]
    /\ threads' = [Touch(threads, PipelineObjects, "camera") EXCEPT !.in_process = @ \ {"camera"}]
    /\ pc' = "refresh"
    /\ UNCHANGED <<algorithm_configuration, cursors, biases, ui, rpms, filtered_rpms, first, status, packet, passed, display, device>>

\* lines 85-146: the series drawn from the buffers and the configuration
RefreshSeries(d, configuration, spectrum_, autocorrelation_, detections) == [d EXCEPT !.spectrum.points = PointsOf(spectrum_), !.spectrum.maximum = MaxOf(spectrum_), !.spectrum_amplitude_threshold = ThresholdLine(Rat(configuration.amplitude_threshold, 10)), !.autocorrelation.points = PointsOf(autocorrelation_), !.autocorrelation_threshold = ThresholdLine(Rat(configuration.autocorrelation_threshold, 100)), !.autocorrelation_detection = DetectionLine(detections)]

\* lines 156-169: the history drawn
RefreshHistory(d, filtered) == [d EXCEPT !.rpms.maximum = IF RatLe(One, MaxOf(filtered)) THEN MaxOf(filtered) ELSE One, !.rpms.current = filtered[Cardinality(DOMAIN filtered) - 1], !.rpms.points = HistoryPoints(filtered)]

\* line 82
RefreshAlways(first_, new_rpms_) == TRUE
ShouldRefresh(first_, new_rpms_) == first_ \/ new_rpms_ # None

\* lines 82-172: the display is refreshed on the first call and whenever
\* process returned samples, then the events are pushed to the display
Refresh ==
    /\ pc = "refresh"
    /\ IF ShouldRefresh(first, new_rpms)
       THEN /\ first' = FALSE
            /\ cursors' = [cursors EXCEPT !.changed = TRUE]
            /\ threads' = Touch(threads, PipelineObjects \cup {"algorithm_configuration", "cursors"}, "camera")
            /\ IF new_rpms # None /\ HistoryFails(rpms, Flat(new_rpms))
               THEN /\ display' = RefreshSeries(display, algorithm_configuration, spectrum, autocorrelation, autocorrelation_detections)
                    /\ pc' = "crashed"
                    /\ UNCHANGED <<rpms, filtered_rpms, cycle>>
               ELSE \E history \in {IF new_rpms # None THEN HistoryAppend(rpms, Flat(new_rpms)) ELSE rpms} : \E filtered \in {MinimumFilter(history)} :
                    /\ rpms' = history
                    /\ filtered_rpms' = filtered
                    /\ display' = EventDisplayPush(RefreshHistory(RefreshSeries(display, algorithm_configuration, spectrum, autocorrelation, autocorrelation_detections), filtered), TheValue(TheValue(packet).polarity_events), status.ring)
                    /\ cycle' = [cycle EXCEPT !.refreshed = TRUE, !.pushed = TRUE]
                    /\ pc' = "cursors"
       ELSE /\ display' = EventDisplayPush(display, TheValue(TheValue(packet).polarity_events), status.ring)
            /\ cycle' = [cycle EXCEPT !.pushed = TRUE]
            /\ pc' = "cursors"
            /\ UNCHANGED <<first, cursors, threads, rpms, filtered_rpms>>
    /\ UNCHANGED <<algorithm_configuration, biases, ui, rpm_calculator, spectrum, autocorrelation, autocorrelation_detections, status, packet, passed, new_rpms, device, session>>

\* line 177
CursorCheck ==
    /\ pc = "cursors"
    /\ threads' = Touch(threads, {"cursors"}, "camera")
    /\ IF cursors.changed
       THEN pc' = "publish" /\ UNCHANGED <<status, packet, passed, new_rpms, cycle>>
       ELSE EndIteration
    /\ UNCHANGED <<algorithm_configuration, cursors, biases, ui, rpm_calculator, spectrum, autocorrelation, autocorrelation_detections, rpms, filtered_rpms, first, display, device, session>>

\* lines 178-193
CursorPublish ==
    /\ pc = "publish"
    /\ display' = [display EXCEPT !.published = [spectrum |-> cursors.spectrum, autocorrelation |-> cursors.autocorrelation, rpms |-> cursors.rpms], !.spectrum.cursor = spectrum[CursorIndex(spectrum, cursors.spectrum)], !.autocorrelation.cursor = autocorrelation[CursorIndex(autocorrelation, cursors.autocorrelation)], !.rpms.cursor = rpms[CursorIndex(rpms, cursors.rpms)]]
    /\ threads' = Touch(threads, {"spectrum", "autocorrelation", "cursors"}, "camera")
    /\ pc' = "reset"
    /\ UNCHANGED <<algorithm_configuration, cursors, biases, ui, rpm_calculator, spectrum, autocorrelation, autocorrelation_detections, rpms, filtered_rpms, first, status, packet, passed, new_rpms, cycle, device, session>>

\* line 194
CursorReset ==
    /\ pc = "reset"
    /\ cursors' = [cursors EXCEPT !.changed = FALSE]
    /\ threads' = Touch(threads, {"cursors"}, "camera")
    /\ EndIteration
    /\ UNCHANGED <<algorithm_configuration, biases, ui, rpm_calculator, spectrum, autocorrelation, autocorrelation_detections, rpms, filtered_rpms, first, display, device, session>>

\* ---------------------------------------------------------- the UI thread

\* the values to_python is handed (value: typing.Any, line 216): a number,
\* a boolean or a string. The function stores what it is given: the ranges
\* of the SpinBoxes of the QML are not checked again on this side, so the
\* values drawn here include ones outside those ranges
Number(x) == [type |-> "number", number |-> x]
Text == [type |-> "str", number |-> Zero]
Bool(b) == [type |-> "bool", number |-> IF b THEN One ELSE Zero]
ToPythonCalls == {[key |-> "diff_on", value |-> Number(One)], [key |-> "maximum_latency_ms", value |-> Number(Int2Rat(4000))], [key |-> "amplitude_threshold", value |-> Number(Int2Rat(5))], [key |-> "autocorrelation_threshold", value |-> Number(Int2Rat(150))], [key |-> "frequency_divider", value |-> Number(Zero)], [key |-> "pause", value |-> Bool(TRUE)], [key |-> "spectrum_cursor", value |-> Number(Rat(1, 2))], [key |-> "autocorrelation_cursor", value |-> Number(Rat(1, 2))], [key |-> "rpms_cursor", value |-> Number(Rat(1, 2))], [key |-> "rpms_cursor", value |-> Number(Int2Rat(2))], [key |-> "rpms_cursor", value |-> Text], [key |-> "unknown", value |-> Number(Zero)]}

\* the call hands a cursor something that is not a number of [0, 1]
OutOfRangeCursor(key, value) == key \in {"spectrum_cursor", "autocorrelation_cursor", "rpms_cursor"} /\ (value.type # "number" \/ RatLt(value.number, Zero) \/ RatLt(One, value.number))

\* lines 231, 235, 239
AnyNumber(value) == value.type = "number"
ValidCursor(value) == value.type = "number" /\ RatLe(Zero, value.number) /\ RatLe(value.number, One)
CursorOf(key) == IF key = "spectrum_cursor" THEN "spectrum" ELSE IF key = "autocorrelation_cursor" THEN "autocorrelation" ELSE "rpms"

\* lines 216-243, up to the store of a cursor; the integers of the
\* configuration are stored as they come
ToPython(key, value) ==
    /\ pc # "unstarted"
    /\ ui.pc = "idle"
    /\ ui.calls < MaxUiCalls
    /\ threads' = Touch(threads, ToPythonObjects(key), "ui")
    /\ biases' = IF key \in BiasesNames THEN [biases EXCEPT ![key] = value.number.n] ELSE biases
    /\ algorithm_configuration' = IF key \in {"maximum_latency_ms", "amplitude_threshold", "autocorrelation_threshold", "frequency_divider"} THEN [algorithm_configuration EXCEPT ![key] = value.number.n] ELSE IF key = "pause" THEN [algorithm_configuration EXCEPT !.pause = (value.number = One)] ELSE algorithm_configuration
    /\ IF key \in {"spectrum_cursor", "autocorrelation_cursor", "rpms_cursor"} /\ ValidCursor(value)
       THEN /\ cursors' = [cursors EXCEPT ![CursorOf(key)] = value.number]
            /\ ui' = [pc |-> "changed", calls |-> ui.calls + 1, rejected |-> OutOfRangeCursor(key, value)]
       ELSE /\ ui' = [pc |-> "idle", calls |-> ui.calls + 1, rejected |-> OutOfRangeCursor(key, value)]
            /\ UNCHANGED cursors
    /\ UNCHANGED <<pc, rpm_calculator, spectrum, autocorrelation, autocorrelation_detections, rpms, filtered_rpms, first, status, packet, passed, new_rpms, cycle, display, device, session>>

\* lines 233, 237, 241: the second store of a cursor branch
SetChanged ==
    /\ ui.pc = "changed"
    /\ cursors' = [cursors EXCEPT !.changed = TRUE]
    /\ ui' = [ui EXCEPT !.pc = "idle"]
    /\ threads' = Touch(threads, {"cursors"}, "ui")
    /\ UNCHANGED <<algorithm_configuration, biases, pc, rpm_calculator, spectrum, autocorrelation, autocorrelation_detections, rpms, filtered_rpms, first, status, packet, passed, new_rpms, cycle, display, device, session>>

Next ==
    \/ StartCameraThread
    \/ CreatePipeline
    \/ \E delay \in Delays : \E yield \in Packets(device.time) : Fetch(delay, yield)
    \/ Call
    \/ Return
    \/ Refresh
    \/ CursorCheck
    \/ CursorPublish
    \/ CursorReset
    \/ \E call \in ToPythonCalls : ToPython(call.key, call.value)
    \/ SetChanged

Spec == Init /\ [][Next]_vars

\* ------------------------------------- the pipeline on its own, driven

InitCore ==
    /\ InitHost
    /\ rpm_calculator = Some(NewCalculator)
    /\ spectrum = NewSpectrum
    /\ autocorrelation = NewAutocorrelation
    /\ autocorrelation_detections = NewDetections
    /\ \E a \in AmplitudeArguments, c \in AutocorrelationArguments,
          s \in ScaleArguments : session = NewSession(a, c, s)

\* one process call of the session
Deliver(events) ==
    /\ Len(session.delivered) + Len(events) <= MaxEvents
    /\ \E c \in rpm_calculator :
       \E r \in {Process(c, spectrum, autocorrelation, autocorrelation_detections,
                        events, session.amplitude_threshold,
                        session.autocorrelation_threshold, session.scale)} :
       LET taken == ~Malformed(c, events)
       IN
        /\ rpm_calculator' = Some(r.calculator)
        /\ spectrum' = r.spectrum
        /\ autocorrelation' = r.autocorrelation
        /\ autocorrelation_detections' = r.detections
        /\ UNCHANGED host_vars
        /\ session' =
             [session EXCEPT
                !.delivered = IF taken THEN @ \o events ELSE @,
                !.outputs = @ \o Flat(r.rpms),
                !.calls = Min(@ + 1, 2),
                !.all_empty = @ /\ events = <<>>,
                !.well_formed = @ /\ taken,
                !.ticks = @ + r.ticks,
                !.rejected = @ + (IF r.accepted THEN 0 ELSE r.ticks),
                !.max_power =
                    IF r.ticks > 0
                    THEN Max(@, r.spectrum[PeakOf(r.spectrum)].n)
                    ELSE @,
                !.returned = r.rpms,
                !.last_ticks = r.ticks]

NextCore == \E events \in Batches : Deliver(events)

SpecCore == InitCore /\ [][NextCore]_vars

\* ------------------------------------------------ claims on the pipeline

\* what one call on a new pipeline returns for everything delivered so far
OneBatch ==
    Process(NewCalculator, NewSpectrum, NewAutocorrelation, NewDetections,
            session.delivered, session.amplitude_threshold,
            session.autocorrelation_threshold, session.scale)

C1_SameOutputs ==
    (session.calls >= 1 /\ session.well_formed) =>
        session.outputs = Flat(OneBatch.rpms)

\* the bins of signal time that have elapsed: the bins completed before the
\* latest event's bin
BinsElapsed ==
    IF session.delivered = <<>> THEN 0
    ELSE session.delivered[Len(session.delivered)] \div TimestampsPerBin

\* whole 1/SAMPLING_FREQUENCY intervals in BinsElapsed bins of 1/FFT_FREQUENCY
IntervalsElapsed == (BinsElapsed * SAMPLING_FREQUENCY) \div FFT_FREQUENCY

BelowThreshold ==
    ~MagnitudeExceeds(Int2Rat(session.max_power), session.amplitude_threshold)

\* C3: zero input. While every batch is empty, or the signal stays below the
\* threshold, no call returns a sample and after every call the marker's
\* position is the sentinel -1.
C3_ZeroInput ==
    (session.calls >= 1 /\ (session.all_empty \/ BelowThreshold)) =>
        /\ session.outputs = <<>>
        /\ autocorrelation_detections[2] = Sentinel

\* analysis ticks have run on a signal that is not zero and stays below the
\* threshold
C3_Witness ==
    /\ session.ticks >= 2
    /\ session.max_power > 0
    /\ BelowThreshold

\* two calls, both with an empty batch
C3_WitnessEmpty == session.calls >= 2 /\ session.all_empty

\* the two tests of C4 on the buffers the call left
AmplitudeTest ==
    MagnitudeExceeds(spectrum[PeakOf(spectrum)], session.amplitude_threshold)
AutocorrelationTest ==
    RatLt(session.autocorrelation_threshold, autocorrelation[PeakOf(autocorrelation)])

\* C4: dual-threshold acceptance. A call whose analysis ran returns samples
\* only if the spectral peak exceeds amplitude_threshold and the
\* autocorrelation peak (lag 0 excluded) exceeds autocorrelation_threshold;
\* if either test fails it returns none and the marker holds the sentinel.
C4_DualThreshold ==
    session.last_ticks >= 1 =>
        /\ session.returned # None => (AmplitudeTest /\ AutocorrelationTest)
        /\ ~(AmplitudeTest /\ AutocorrelationTest) =>
              /\ session.returned = None
              /\ autocorrelation_detections[2] = Sentinel

\* an analysis that passed one test and failed the other
C4_Witness ==
    /\ session.last_ticks >= 1
    /\ AmplitudeTest
    /\ ~AutocorrelationTest
    /\ session.returned = None

\* an analysis that passed both
C4_WitnessAccepted ==
    /\ session.last_ticks >= 1
    /\ session.returned # None
    /\ autocorrelation_detections[2] # Sentinel

\* ------------------------------------------------ the host and the pipeline

\* the iteration has called process and is past its refresh block
AfterRefreshBlock == cycle.called /\ pc \in {"cursors", "publish", "reset"}

C6_InvalidConfigurationClamped ==
    /\ pc # "crashed"
    /\ \A p \in passed :
        /\ RatLe(Zero, p.amplitude_threshold)
        /\ RatLe(Zero, p.autocorrelation_threshold) /\ RatLe(p.autocorrelation_threshold, One)
        /\ RatLt(Zero, p.frequency_divider)

\* C7 (as stated): the autocorrelation threshold passed to process lies in
\* [0, 1] and the amplitude threshold passed is not negative
C7_ThresholdsInRange == \A p \in passed : RatLe(Zero, p.autocorrelation_threshold) /\ RatLe(p.autocorrelation_threshold, One) /\ RatLe(Zero, p.amplitude_threshold)

\* C8 (as stated): the marker buffer has 2 slots, and the marker on screen
\* after a refresh is the one of its slots 0 and 1
C8_MarkerBufferOfTwo ==
    /\ Cardinality(DOMAIN autocorrelation_detections) = 2
    /\ cycle.refreshed => display.autocorrelation_detection = (IF RatLe(Zero, autocorrelation_detections[0]) THEN <<(<<autocorrelation_detections[0], Rat(-1, 2)>>), (<<autocorrelation_detections[0], autocorrelation_detections[1]>>)>> ELSE <<>>)

\* C8 (amended): the marker buffer has 4 slots, and the marker on screen
\* after a refresh is the one of its slots 2 (position) and 3 (value)
C8_MarkerBufferOfFour ==
    /\ Cardinality(DOMAIN autocorrelation_detections) = 4
    /\ cycle.refreshed => display.autocorrelation_detection = (IF RatLe(Zero, autocorrelation_detections[2]) THEN <<(<<autocorrelation_detections[2], Rat(-1, 2)>>), (<<autocorrelation_detections[2], autocorrelation_detections[3]>>)>> ELSE <<>>)

\* a refresh has drawn a marker at a position other than zero
C8_Witness == cycle.refreshed /\ RatLt(Zero, autocorrelation_detections[2]) /\ display.autocorrelation_detection # <<>>

\* C9 (as stated): once an iteration in which process returned no sample
\* and wrote the sentinel position is past its refresh block, no marker is
\* on screen
C9_MarkerClearedWhenNotConfirmed == (AfterRefreshBlock /\ new_rpms = None /\ RatLt(autocorrelation_detections[2], Zero)) => display.autocorrelation_detection = <<>>

\* C10: the calculator is made by the camera thread, only the camera
\* thread is ever inside process, and only the camera thread has touched
\* the calculator and the three buffers
C10_SingleThreadOwnership ==
    /\ threads.creator \subseteq {"camera"}
    /\ rpm_calculator # None => threads.creator = {"camera"}
    /\ threads.in_process \subseteq {"camera"}
    /\ \A o \in PipelineObjects : threads.accessed[o] \subseteq {"camera"}

\* the UI thread has run to_python on the configuration, and the camera
\* thread is inside process
C10_Witness == threads.in_process = {"camera"} /\ "ui" \in threads.accessed["algorithm_configuration"]

\* the step that takes the next status and packet from the device
FetchStep == pc = "next" /\ pc' # "next"

\* C11: in every iteration of the loop, paused or not, the backlog is
\* cleared if and only if a delay is reported and that delay, in
\* milliseconds, is strictly greater than the maximum_latency_ms configured
\* at that moment
C11_BacklogClearedIffTooLate == [][FetchStep => (status'.cleared <=> (status'.delay # None /\ RatLt(Int2Rat(algorithm_configuration.maximum_latency_ms), RatMul(TheValue(status'.delay), Int2Rat(1000)))))]_vars

\* the backlog has been cleared in an iteration that is paused
C11_Witness == status.cleared /\ algorithm_configuration.pause /\ ~first

\* a delay equal to the limit has been reported, and the backlog was kept
C11_WitnessWithinLimit == status.delay = Some(Int2Rat(4)) /\ ~status.cleared /\ pc = "call"

\* the batch passed in an iteration is the events of the packet the device
\* yielded in that iteration, and no batch comes from a packet that the
\* device has not yielded
BatchesInOrder ==
    /\ session.last <= device.yielded
    /\ \A e \in cycle.batch : packet = Some([polarity_events |-> Some(e)]) /\ session.last = device.yielded

\* a batch is passed in the iteration that took its packet from the device,
\* at most once, and from a later packet than every batch before it
PassedWhenYielded ==
    /\ session'.calls # session.calls => (session'.calls = session.calls + 1 /\ cycle.batch = None /\ cycle'.batch # None /\ session.last < session'.last)
    /\ session'.last # session.last => (session'.calls # session.calls /\ session'.last = device.yielded /\ device' = device)
    /\ (cycle'.batch # cycle.batch /\ cycle'.batch # None) => session'.calls # session.calls

HistoryValues == {Zero, One, Int2Rat(2)}
Histories == [0 .. (HistoryLength - 1) -> HistoryValues]
Samples(n) == [i \in 1 .. n |-> Int2Rat(10 + i)]
Returned == {None} \cup {Some(Samples(n)) : n \in 0 .. (HistoryLength + 1)}

\* the camera thread stands at line 82, process has just returned
InitRefresh ==
    /\ algorithm_configuration = NewAlgorithmConfiguration
    /\ cursors = NewCursors
    /\ biases = [name \in BiasesNames |-> 0]
    /\ ui = [pc |-> "idle", calls |-> 0, rejected |-> FALSE]
    /\ pc = "refresh"
    /\ rpm_calculator = Some(NewCalculator)
    /\ spectrum = NewSpectrum
    /\ autocorrelation = NewAutocorrelation
    /\ autocorrelation_detections = WriteMarker(NewDetections, NoMarker)
    /\ rpms \in Histories
    /\ filtered_rpms = MinimumFilter(rpms)
    /\ first \in BOOLEAN
    /\ status = [delay |-> None, ring |-> Some(0), cleared |-> FALSE]
    /\ packet = Some([polarity_events |-> Some(<<>>)])
    /\ passed = Some(ProcessArguments(algorithm_configuration))
    /\ new_rpms \in Returned
    /\ cycle = [NoCycle EXCEPT !.called = TRUE, !.batch = Some(<<>>)]
    /\ display = NewDisplay
    /\ device = [time |-> 0, yielded |-> 1]
    /\ threads = [Touch(NewThreads, PipelineObjects \cup {"algorithm_configuration"}, "camera") EXCEPT !.creator = Some("camera")]
    /\ session = [NewSession(Zero, Zero, One) EXCEPT !.calls = 1, !.last = 1]

NextRefresh == Refresh

SpecRefresh == InitRefresh /\ [][NextRefresh]_vars

\* the step through the refresh block
RefreshStep == pc = "refresh" /\ pc' # "refresh"

\* C13: when process returned n samples, 1 <= n <= the length of the
\* history, the last n entries of the history are afterwards the samples in
\* order and the entries before them are the previous last ones; when
\* process returned None the history is unchanged
C13_HistoryAppend ==
    [][RefreshStep =>
        IF new_rpms = None
        THEN rpms' = rpms
        ELSE \A n \in {Len(TheValue(new_rpms))} : (1 <= n /\ n <= HistoryLength) =>
                /\ DOMAIN rpms' = 0 .. (HistoryLength - 1)
                /\ \A i \in 1 .. n : rpms'[HistoryLength - n + i - 1] = TheValue(new_rpms)[i]
                /\ \A i \in 0 .. (HistoryLength - n - 1) : rpms'[i] = rpms[i + n]]_vars

\* two samples were appended to a history that did not end as it began
C13_Witness == pc = "cursors" /\ new_rpms = Some(Samples(2)) /\ rpms[0] = One /\ rpms[1] = Int2Rat(2) /\ rpms[HistoryLength - 1] = Int2Rat(12)

\* C14: the spectrum and autocorrelation buffers are copied into their
\* series in every iteration in which process returned samples and in the
\* iteration of the very first process call, and the two series are left as
\* they were in every other iteration that called process
C14_DisplayRefresh ==
    [][RefreshStep =>
        IF new_rpms # None \/ session.calls = 1
        THEN /\ display'.spectrum.points = [i \in 1 .. HalfSamples |-> <<Rat((i - 1) * FFT_FREQUENCY, FFT_SAMPLES), spectrum[i - 1]>>]
             /\ display'.autocorrelation.points = [i \in 1 .. HalfSamples |-> <<Rat((i - 1) * FFT_FREQUENCY, FFT_SAMPLES), autocorrelation[i - 1]>>]
        ELSE /\ display'.spectrum = display.spectrum
             /\ display'.autocorrelation = display.autocorrelation]_vars

\* a later call has returned samples and its buffers are on screen
C14_Witness == AfterRefreshBlock /\ session.calls = 2 /\ new_rpms # None /\ display.spectrum.points = PointsOf(spectrum) /\ display.spectrum.maximum # Zero

\* a later call has returned no samples, and the series do not show the
\* buffers it left
C14_WitnessNotRefreshed == AfterRefreshBlock /\ session.calls = 2 /\ new_rpms = None /\ display.spectrum.points # PointsOf(spectrum)

\* ------------------------------------------- the sliding window on its own

\* how many bins are completed in a run
MaxBins == 7

\* 4.1, 4.2: the binner completes a bin of bin_value events and the bin
\* enters the window; the session keeps the bins completed so far
CompleteBin(bin_value) ==
    /\ Len(session.bins) < MaxBins
    /\ \E c \in rpm_calculator : rpm_calculator' = Some(PushBin([c EXCEPT !.bin_count = bin_value]))
    /\ session' = [session EXCEPT !.bins = Append(@, bin_value)]
    /\ UNCHANGED <<spectrum, autocorrelation, autocorrelation_detections>>
    /\ UNCHANGED host_vars

NextWindow == \E bin_value \in 0 .. MaxBatch : CompleteBin(bin_value)

SpecWindow == InitCore /\ [][NextWindow]_vars

\* C15: after any sequence of bin pushes the window holds the most recent
\* FFT_SAMPLES bins, oldest first, and zero in every slot that has not been
\* written before the first full fill
C15_SlidingWindow ==
    \A c \in rpm_calculator :
        /\ Len(c.window) = FFT_SAMPLES
        /\ \A i \in 1 .. FFT_SAMPLES : c.window[i] = (IF Len(session.bins) - FFT_SAMPLES + i >= 1 THEN session.bins[Len(session.bins) - FFT_SAMPLES + i] ELSE 0)

\* the window has been filled and its oldest bin, which held events,
\* overwritten
C15_Witness == Len(session.bins) > FFT_SAMPLES /\ session.bins[1] = 1 /\ \E c \in rpm_calculator : c.window[1] = 2 /\ c.window[FFT_SAMPLES] = 1

\* the window is not full yet and holds a bin
C15_WitnessPartial == Len(session.bins) = 2 /\ \E c \in rpm_calculator : c.window[FFT_SAMPLES] = 1 /\ c.window[1] = 0

\* the boundaries of the analysis clock crossed between two states of the
\* pipeline: each bin completed adds SAMPLING_FREQUENCY to the clock, and a
\* boundary lies at every multiple of FFT_FREQUENCY
Crossed(c, d) == (c.analysis_clock + SAMPLING_FREQUENCY * (d.bin_index - c.bin_index)) \div FFT_FREQUENCY

\* C16: in one process call the analysis runs once per boundary of the
\* analysis clock crossed in the call; the call returns one sample per
\* accepted analysis, in order, and None, never an empty sequence, when no
\* boundary was crossed or no analysis was accepted
C16_OncePerBoundary ==
    [][\A c \in rpm_calculator : \A d \in rpm_calculator' :
        /\ session'.last_ticks = Crossed(c, d)
        /\ session'.returned # Some(<<>>)
        /\ session'.returned = None <=> session'.last_ticks - (session'.rejected - session.rejected) = 0
        /\ Len(Flat(session'.returned)) = session'.last_ticks - (session'.rejected - session.rejected)
        /\ \A i \in 1 .. Len(Flat(session'.returned)) : \E k \in PeakBins : Flat(session'.returned)[i] = RatMul(Rat(60 * k * FFT_FREQUENCY, FFT_SAMPLES), session.scale)]_vars

\* one call has crossed two boundaries and returned two samples
C16_Witness == session.last_ticks = 2 /\ Len(Flat(session.returned)) = 2

\* one call has crossed a boundary and returned None
C16_WitnessRejected == session.last_ticks = 1 /\ session.returned = None

\* the least of the history from one index to another is x
LeastOf(history, from, to, x) == (\E j \in from .. to : history[j] = x) /\ (\A j \in from .. to : RatLe(x, history[j]))

\* C17: after every refresh, each entry of the filtered history is the
\* least of the raw history from two entries before it to two entries
\* after it, cut at the edges; so it is at most the raw entry, the speed
\* displayed as current is the least of the last 3 raw samples, and the
\* maximum displayed is at least 1.0
C17_MinimumFilter ==
    cycle.refreshed =>
        /\ \A i \in 0 .. (HistoryLength - 1) : LeastOf(rpms, Max(0, i - 2), Min(HistoryLength - 1, i + 2), filtered_rpms[i])
        /\ \A i \in 0 .. (HistoryLength - 1) : RatLe(filtered_rpms[i], rpms[i])
        /\ LeastOf(rpms, HistoryLength - 3, HistoryLength - 1, display.rpms.current)
        /\ RatLe(One, display.rpms.maximum)
        /\ \A i \in 0 .. (HistoryLength - 1) : RatLe(filtered_rpms[i], display.rpms.maximum)

\* a refresh has smoothed a history: the filtered history differs from the
\* raw one, is not flat, and the maximum displayed is above 1.0
C17_Witness == cycle.refreshed /\ filtered_rpms # rpms /\ filtered_rpms[0] # filtered_rpms[HistoryLength - 1] /\ RatLt(One, display.rpms.maximum)

\* C18 (as stated): no cursor value accepted by to_python is lost: when
\* both threads are between two operations and no change is pending, the
\* cursor properties are the ones computed from the cursor values stored
C18_NoLostCursorUpdate == (pc = "next" /\ ui.pc = "idle" /\ ~cursors.changed) => display.published = [spectrum |-> cursors.spectrum, autocorrelation |-> cursors.autocorrelation, rpms |-> cursors.rpms]

\* the three cursors are in [0, 1], and so the indices read at lines
\* 180, 186 and 192 are within their buffers
CursorsInRange ==
    /\ \A f \in {"spectrum", "autocorrelation", "rpms"} : RatLe(Zero, cursors[f]) /\ RatLe(cursors[f], One)
    /\ Round(RatMul(Int2Rat(HalfSamples - 1), cursors.spectrum)) \in 0 .. (HalfSamples - 1)
    /\ Round(RatMul(Int2Rat(HalfSamples - 1), cursors.autocorrelation)) \in 0 .. (HalfSamples - 1)
    /\ Round(RatMul(Int2Rat(HistoryLength - 1), cursors.rpms)) \in 0 .. (HistoryLength - 1)

\* a to_python call with a cursor key and a value that is not a number of
\* [0, 1] changes neither the cursors nor the changed flag
InvalidCursorIgnored == (ui'.calls = ui.calls + 1 /\ ui'.rejected) => (cursors' = cursors /\ ui'.pc = "idle")

\* C19: after any sequence of to_python calls the three cursors are in
\* [0, 1] and the indices computed from them are within the buffers; a
\* cursor value that is not a number or is outside [0, 1] leaves the cursor
\* and the changed flag as they were
C19_CursorsValidated == []CursorsInRange /\ [][InvalidCursorIgnored]_vars

\* to_python was called with a cursor out of range and nothing was stored
C19_Witness == ui.calls = 1 /\ ui.rejected /\ cursors = NewCursors

\* to_python was called with a cursor of 1/2, which was stored
C19_WitnessAccepted == ~ui.rejected /\ cursors.rpms = Rat(1, 2) /\ cursors.changed

\* the packet of the iteration holds polarity events
PacketHasEvents == \E p \in packet : p.polarity_events # None

\* in an iteration that found pause set after the first process call,
\* process is not called, nothing is pushed to the event display and the
\* display is not refreshed; and a packet with events is skipped in such
\* an iteration only, so the first one is processed whatever pause says
PausedIterationIdle ==
    /\ cycle.paused => pc \in {"cursors", "publish", "reset"} /\ ~cycle.called /\ ~cycle.pushed /\ ~cycle.refreshed /\ ~first /\ session.calls >= 1
    /\ (PacketHasEvents /\ pc \in {"cursors", "publish", "reset"} /\ ~cycle.called) => (cycle.paused /\ session.calls >= 1)
    /\ first => session.calls <= 1

\* through a paused iteration the history and the series stay as they
\* were, up to the cursor properties, which are still published
PausedIterationFrame ==
    cycle'.paused =>
        /\ rpms' = rpms /\ filtered_rpms' = filtered_rpms /\ session'.calls = session.calls
        /\ [display' EXCEPT !.published = display.published, !.spectrum.cursor = display.spectrum.cursor, !.autocorrelation.cursor = display.autocorrelation.cursor, !.rpms.cursor = display.rpms.cursor] = display
        /\ FetchStep => (status'.cleared <=> (status'.delay # None /\ RatLt(Int2Rat(algorithm_configuration.maximum_latency_ms), RatMul(TheValue(status'.delay), Int2Rat(1000)))))
        /\ (pc = "cursors" /\ pc' # "cursors" /\ cursors.changed) => pc' = "publish"
        /\ (pc = "publish" /\ pc' # "publish") => display'.published = [spectrum |-> cursors.spectrum, autocorrelation |-> cursors.autocorrelation, rpms |-> cursors.rpms]

C20_WitnessPublished == cycle.paused /\ pc = "reset" /\ display.published.spectrum = Rat(1, 2)

\* C21 (as stated): once an iteration has refreshed the display, the two
\* threshold lines on screen are at the thresholds that were passed to
\* process in that iteration, whatever to_python did in between
C21_ThresholdLinesAsPassed == (AfterRefreshBlock /\ cycle.refreshed) => \A p \in passed : display.spectrum_amplitude_threshold = ThresholdLine(p.amplitude_threshold) /\ display.autocorrelation_threshold = ThresholdLine(p.autocorrelation_threshold)

\* an iteration has refreshed the display after a to_python call and the
\* lines are at the thresholds passed
C21_WitnessAgree == AfterRefreshBlock /\ cycle.refreshed /\ ui.calls = 1 /\ algorithm_configuration.amplitude_threshold # DEFAULT_AMPLITUDE_THRESHOLD /\ \A p \in passed : display.spectrum_amplitude_threshold = ThresholdLine(p.amplitude_threshold)

\* C22 (as stated): whatever the length n of the sequence process returned,
\* 0 and more than the length of the history included, the refresh block
\* runs to its end, the history keeps its length, and it ends with the last
\* min(n, length) samples returned, in order
C22_HistoryUpdateAnyLength ==
    [][(RefreshStep /\ new_rpms # None) =>
        \A n \in {Len(TheValue(new_rpms))} : \A k \in {Min(n, HistoryLength)} :
            /\ pc' # "crashed"
            /\ DOMAIN rpms' = 0 .. (HistoryLength - 1)
            /\ \A i \in 1 .. k : rpms'[HistoryLength - k + i - 1] = TheValue(new_rpms)[n - k + i]]_vars

\* a sequence as long as the history has replaced it whole
C22_WitnessFull == pc = "cursors" /\ new_rpms = Some(Samples(HistoryLength)) /\ \A i \in 1 .. HistoryLength : rpms[i - 1] = Samples(HistoryLength)[i]

\* the thread has ended in the history update, on an empty sequence and on
\* one longer than the history
C22_WitnessEmpty == pc = "crashed" /\ new_rpms = Some(<<>>)
C22_WitnessLonger == pc = "crashed" /\ new_rpms = Some(Samples(HistoryLength + 1))

====
